---- MODULE Spec2Model ----
(***************************************************************************)
(* The trivia API of backend/flaskr/__init__.py as a state machine.        *)
(*                                                                         *)
(* The state is the database (the questions and categories tables and the  *)
(* id sequence of the questions table) together with the last request, the *)
(* response it got, what the endpoint function did before the decorator    *)
(* handle_exceptions took over, and the calls made on db.session while the *)
(* request was served.  Every endpoint is one action: the whole decorated  *)
(* handler, the error handler of the status it ends with included.         *)
(*                                                                         *)
(* JSON values: a string is Str(s) with s a sequence of one-character      *)
(* strings, null is Null, a number is an integer, an object is a function  *)
(* from its keys (an absent key is absent from the DOMAIN, so that d[k]    *)
(* on it is Python's KeyError).                                            *)
(***************************************************************************)
EXTENDS Integers, Sequences, FiniteSets, TLC

VARIABLES questions, categories, nextId, req, resp, outcome, session, writes

vars == <<questions, categories, nextId, req, resp, outcome, session, writes>>

(***************************************************************************)
(* Bounds of the model.                                                    *)
(***************************************************************************)
NumSeed == 11        \* questions in the non-empty seeded store
MaxWrites == 2       \* successful creates and deletes in one behaviour
MaxTermLen == 2      \* length of a search term
MaxPage == 3         \* largest page number requested
MaxPrev == 2         \* previous_questions is a subset of 1..MaxPrev

QUESTIONS_PER_PAGE == 10

(***************************************************************************)
(* JSON values and texts.                                                  *)
(***************************************************************************)
Str(s) == [t |-> "str", v |-> s]
Null == [t |-> "null"]

\* "\\" is the one character backslash
Alphabet == {"a", "B", "_", "\\"}

RECURSIVE SeqsUpTo(_)
SeqsUpTo(n) ==
    IF n = 0 THEN {<<>>}
    ELSE LET shorter == SeqsUpTo(n - 1)
         IN  shorter \cup {Append(s, c) : s \in shorter, c \in Alphabet}

Min(a, b) == IF a <= b THEN a ELSE b

Restrict(f, D) == [k \in D |-> f[k]]

(***************************************************************************)
(* The tables (models.py): a question row is                               *)
(* [id, question, answer, category, difficulty], a category row is         *)
(* [id, type].  insert() and delete() add or delete the row and commit;    *)
(* the id of a new row comes from the table's sequence, which only grows.  *)
(***************************************************************************)
Question(id, question, answer, difficulty, category) ==
    [id |-> id, question |-> question, answer |-> answer,
     category |-> category, difficulty |-> difficulty]

Question_format(q) ==
    [id |-> q.id, question |-> q.question, answer |-> q.answer,
     category |-> q.category, difficulty |-> q.difficulty]

Question_insert(qs, q) == qs \cup {q}

Question_delete(qs, q) == qs \ {q}

\* Query.get: the rows with that primary key (none, or one)
Question_get(qs, id) == {q \in qs : q.id = id}

Category_get(cats, id) == {c \in cats : c.id = id}

SeedCategories == {[id |-> 1, type |-> "Science"], [id |-> 2, type |-> "Art"]}

SeedText(i) ==
    IF i % 3 = 0 THEN <<"A", "b">>
    ELSE IF i % 3 = 1 THEN <<"b">>
    ELSE <<"a", "_">>

SeedQuestion(i) ==
    Question(i, Str(SeedText(i)), Str(<<"x">>), 1 + (i % 3), 1 + (i % 2))

SeedStore(n) == {SeedQuestion(i) : i \in 1..n}

(***************************************************************************)
(* Query operators.                                                        *)
(***************************************************************************)
\* order_by(Question.id)
RECURSIVE order_by_id(_)
order_by_id(S) ==
    IF S = {} THEN <<>>
    ELSE LET m == CHOOSE q \in S : \A r \in S : q.id <= r.id
         IN  <<m>> \o order_by_id(S \ {m})

offset(seq, k) == IF k >= Len(seq) THEN <<>> ELSE SubSeq(seq, k + 1, Len(seq))

limit(seq, k) == IF k >= Len(seq) THEN seq ELSE SubSeq(seq, 1, k)

\* Query.paginate(page, per_page, error_out=True): the page's rows, or
\* abort(404) when page < 1 or when the page is empty and is not page 1
\* variant: the offset is page * per_page
paginate_offset_by_page(seq, page, per_page) ==
    IF page < 1 THEN [abort |-> TRUE, items |-> <<>>]
    ELSE LET items == limit(offset(seq, page * per_page), per_page)
         IN  IF items = <<>> /\ page # 1
             THEN [abort |-> TRUE, items |-> <<>>]
             ELSE [abort |-> FALSE, items |-> items]

paginate(seq, page, per_page) ==
    IF page < 1 THEN [abort |-> TRUE, items |-> <<>>]
    ELSE LET items == limit(offset(seq, (page - 1) * per_page), per_page)
         IN  IF items = <<>> /\ page # 1
             THEN [abort |-> TRUE, items |-> <<>>]
             ELSE [abort |-> FALSE, items |-> items]

\* lower-casing of one character, as ILIKE folds case
lower(c) == IF c = "A" THEN "a" ELSE IF c = "B" THEN "b" ELSE c

lower_text(s) == [i \in 1..Len(s) |-> lower(s[i])]

\* SQL LIKE on PostgreSQL (the database of test_flaskr.py:15), no ESCAPE
\* clause: % matches any run of characters, _ matches any one character, and
\* a backslash makes the character after it match itself only.  A pattern
\* that ends in a lone backslash is an error there; the pattern of line 196
\* ends in %, so it never does.
RECURSIVE like(_, _)
like(s, p) ==
    IF p = <<>> THEN s = <<>>
    ELSE IF Head(p) = "\\"
         THEN /\ Len(p) >= 2
              /\ s # <<>>
              /\ Head(s) = p[2]
              /\ like(Tail(s), Tail(Tail(p)))
    ELSE IF Head(p) = "%"
         THEN like(s, Tail(p)) \/ (s # <<>> /\ like(Tail(s), p))
         ELSE /\ s # <<>>
              /\ (Head(p) = "_" \/ Head(p) = Head(s))
              /\ like(Tail(s), Tail(p))

\* column.ilike(pattern); a NULL column matches nothing
ilike(col, p) == col.t = "str" /\ like(lower_text(col.v), lower_text(p))

\* request.args.get(key, default)
request_args_get(args, key, default) ==
    IF key \in DOMAIN args THEN args[key] ELSE default

categories_to_dict(cats) ==
    [i \in {c.id : c \in cats} |-> (CHOOSE c \in cats : c.id = i).type]

(***************************************************************************)
(* What an endpoint function does: it returns a body (jsonify), calls      *)
(* abort(code), or raises another exception.  store and nextId are the     *)
(* committed tables after it, ops the calls it made on db.session.         *)
(***************************************************************************)
Return(body, qs, nid, ops) ==
    [kind |-> "return", status |-> 200, body |-> body,
     store |-> qs, nextId |-> nid, ops |-> ops]

Abort(code, qs, nid) ==
    [kind |-> "abort", status |-> code, body |-> Null,
     store |-> qs, nextId |-> nid, ops |-> <<>>]

Raise(qs, nid) ==
    [kind |-> "raise", status |-> 0, body |-> Null,
     store |-> qs, nextId |-> nid, ops |-> <<>>]

(***************************************************************************)
(* The endpoint functions.                                                 *)
(***************************************************************************)
get_categories(qs, cats, nid) ==
    Return([success |-> TRUE,
            total_categories |-> Cardinality(cats),
            categories |-> categories_to_dict(cats)], qs, nid, <<>>)

get_paginated_questions(args, qs, cats, nid) ==
    LET page == request_args_get(args, "page", 1)
        p == paginate(order_by_id(qs), page, QUESTIONS_PER_PAGE)
    IN  IF p.abort THEN Abort(404, qs, nid)
        ELSE Return([success |-> TRUE,
                     total_questions |-> Len(p.items),
                     questions |-> [i \in 1..Len(p.items) |-> Question_format(p.items[i])],
                     categories |-> categories_to_dict(cats)], qs, nid, <<>>)

\* variant: no abort(404); q.delete() on None raises AttributeError
delete_question_no_lookup_check(question_id, qs, nid) ==
    LET q == Question_get(qs, question_id)
    IN  IF q = {} THEN Raise(qs, nid)
        ELSE Return([success |-> TRUE, id |-> question_id],
                    Question_delete(qs, CHOOSE x \in q : TRUE), nid,
                    <<"delete", "commit">>)

delete_question(question_id, qs, nid) ==
    LET q == Question_get(qs, question_id)
    IN  IF q = {} THEN Abort(404, qs, nid)
        ELSE Return([success |-> TRUE, id |-> question_id],
                    Question_delete(qs, CHOOSE x \in q : TRUE), nid,
                    <<"delete", "commit">>)

\* variant: the check of the category (lines 167-168) is left out
create_question_no_category_check(form, qs, cats, nid) ==
    IF "question" \notin DOMAIN form THEN Raise(qs, nid)
    ELSE IF form["question"] = Str(<<>>) THEN Abort(422, qs, nid)
    ELSE IF "answer" \notin DOMAIN form THEN Raise(qs, nid)
    ELSE IF \/ form["answer"] = Str(<<>>)
            \/ form["question"] = Null
            \/ form["answer"] = Null THEN Abort(422, qs, nid)
    ELSE IF "category" \notin DOMAIN form THEN Raise(qs, nid)
    ELSE IF "difficulty" \notin DOMAIN form THEN Raise(qs, nid)
    ELSE Return([success |-> TRUE],
                Question_insert(qs, Question(nid, form["question"], form["answer"],
                                             form["difficulty"], form["category"])),
                nid + 1, <<"add", "commit">>)

\* variant: the check of question and answer tests the empty string only
create_question_no_null_check(form, qs, cats, nid) ==
    IF "question" \notin DOMAIN form THEN Raise(qs, nid)
    ELSE IF form["question"] = Str(<<>>) THEN Abort(422, qs, nid)
    ELSE IF "answer" \notin DOMAIN form THEN Raise(qs, nid)
    ELSE IF form["answer"] = Str(<<>>) THEN Abort(422, qs, nid)
    ELSE IF "category" \notin DOMAIN form THEN Raise(qs, nid)
    ELSE IF Category_get(cats, form["category"]) = {} THEN Abort(422, qs, nid)
    ELSE IF "difficulty" \notin DOMAIN form THEN Raise(qs, nid)
    ELSE Return([success |-> TRUE],
                Question_insert(qs, Question(nid, form["question"], form["answer"],
                                             form["difficulty"], form["category"])),
                nid + 1, <<"add", "commit">>)

\* form[key] raises KeyError on an absent key; the conditions of line 163 are
\* evaluated left to right and stop at the first true one
create_question(form, qs, cats, nid) ==
    IF "question" \notin DOMAIN form THEN Raise(qs, nid)
    ELSE IF form["question"] = Str(<<>>) THEN Abort(422, qs, nid)
    ELSE IF "answer" \notin DOMAIN form THEN Raise(qs, nid)
    ELSE IF \/ form["answer"] = Str(<<>>)
            \/ form["question"] = Null
            \/ form["answer"] = Null THEN Abort(422, qs, nid)
    ELSE IF "category" \notin DOMAIN form THEN Raise(qs, nid)
    ELSE IF Category_get(cats, form["category"]) = {} THEN Abort(422, qs, nid)
    ELSE IF "difficulty" \notin DOMAIN form THEN Raise(qs, nid)
    ELSE Return([success |-> TRUE],
                Question_insert(qs, Question(nid, form["question"], form["answer"],
                                             form["difficulty"], form["category"])),
                nid + 1, <<"add", "commit">>)

search_question(args, qs, nid) ==
    LET search_term == request_args_get(args, "search_term", <<>>)
        found == {q \in qs : ilike(q.question, <<"%">> \o search_term \o <<"%">>)}
    IN  Return([success |-> TRUE,
                total_questions |-> Cardinality(found),
                questions |-> {Question_format(q) : q \in found}], qs, nid, <<>>)

\* variant: the filter on Question.category is left out
get_questions_by_category_unfiltered(category_id, qs, cats, nid) ==
    LET category == Category_get(cats, category_id)
    IN  IF category = {} THEN Abort(404, qs, nid)
        ELSE LET found == {Question_format(q) : q \in qs}
             IN  Return([success |-> TRUE,
                         total_questions |-> Cardinality(found),
                         questions |-> found,
                         current_category |-> (CHOOSE c \in category : TRUE).type],
                        qs, nid, <<>>)

get_questions_by_category(category_id, qs, cats, nid) ==
    LET category == Category_get(cats, category_id)
    IN  IF category = {} THEN Abort(404, qs, nid)
        ELSE LET found == {Question_format(q) : q \in {x \in qs : x.category = category_id}}
             IN  Return([success |-> TRUE,
                         total_questions |-> Cardinality(found),
                         questions |-> found,
                         current_category |-> (CHOOSE c \in category : TRUE).type],
                        qs, nid, <<>>)

\* variant: the category branch does not exclude previous_questions
play_quiz_category_ignores_previous(data, qs, nid) ==
    IF "quiz_category" \notin DOMAIN data THEN {Raise(qs, nid)}
    ELSE IF "id" \notin DOMAIN data["quiz_category"] THEN {Raise(qs, nid)}
    ELSE IF "previous_questions" \notin DOMAIN data THEN {Raise(qs, nid)}
    ELSE LET category_id == data["quiz_category"]["id"]
             previous == data["previous_questions"]
             rows == IF category_id > 0
                     THEN {q \in qs : q.category = category_id}
                     ELSE {q \in qs : q.id \notin previous}
         IN  IF rows = {}
             THEN {Return([success |-> TRUE, question |-> Null], qs, nid, <<>>)}
             ELSE {Return([success |-> TRUE, question |-> Question_format(q)], qs, nid, <<>>)
                   : q \in rows}

\* order_by(func.random()).limit(1) picks any one of the rows the filter
\* leaves: the set of the results the endpoint can give
play_quiz(data, qs, nid) ==
    IF "quiz_category" \notin DOMAIN data THEN {Raise(qs, nid)}
    ELSE IF "id" \notin DOMAIN data["quiz_category"] THEN {Raise(qs, nid)}
    ELSE IF "previous_questions" \notin DOMAIN data THEN {Raise(qs, nid)}
    ELSE LET category_id == data["quiz_category"]["id"]
             previous == data["previous_questions"]
             rows == IF category_id > 0
                     THEN {q \in qs : q.category = category_id /\ q.id \notin previous}
                     ELSE {q \in qs : q.id \notin previous}
         IN  IF rows = {}
             THEN {Return([success |-> TRUE, question |-> Null], qs, nid, <<>>)}
             ELSE {Return([success |-> TRUE, question |-> Question_format(q)], qs, nid, <<>>)
                   : q \in rows}

(***************************************************************************)
(* The decorator and the error handlers.                                   *)
(***************************************************************************)
\* variant: except Exception comes first and catches HTTPException too
handle_exceptions_catches_all(r) ==
    LET forwarded == IF r.kind # "return"
                     THEN [r EXCEPT !.kind = "abort", !.status = 500]
                     ELSE r
    IN  [forwarded EXCEPT !.ops = @ \o <<"rollback", "close">>]

\* try: return f()  except HTTPException: raise  except Exception: abort(500)
\* finally: db.session.rollback(); db.session.close()
handle_exceptions(r) ==
    LET forwarded == IF r.kind = "raise"
                     THEN [r EXCEPT !.kind = "abort", !.status = 500]
                     ELSE r
    IN  [forwarded EXCEPT !.ops = @ \o <<"rollback", "close">>]

not_found == [success |-> FALSE, error |-> 404, message |-> "Resource Not Found"]

bad_request == [success |-> FALSE, error |-> 400, message |-> "Bad Request"]

unprocessable == [success |-> FALSE, error |-> 422, message |-> "Unprocessable"]

internal_server_error ==
    [success |-> FALSE, error |-> 500, message |-> "Internal Server Error"]

\* the response of the decorated endpoint: its own, or the error handler's
Response(r) ==
    IF r.kind = "return" THEN [status |-> 200, body |-> r.body]
    ELSE IF r.status = 404 THEN [status |-> 404, body |-> not_found]
    ELSE IF r.status = 400 THEN [status |-> 400, body |-> bad_request]
    ELSE IF r.status = 422 THEN [status |-> 422, body |-> unprocessable]
    ELSE [status |-> 500, body |-> internal_server_error]

(***************************************************************************)
(* Requests.                                                               *)
(***************************************************************************)
Pages == 0..MaxPage

Terms == SeqsUpTo(MaxTermLen)

CategoryIds == 0..3

QuestionIds == {0, 1, 2, NumSeed, NumSeed + 1, NumSeed + 2}

QuestionValues == {Null, Str(<<>>), Str(<<"a", "\\">>)}

AnswerValues == {Null, Str(<<>>), Str(<<"y">>)}

DifficultyValues == {5}

CreateKeys == {"question", "answer", "category", "difficulty"}

CreateForms ==
    {Restrict(f, D) :
        f \in [question : QuestionValues, answer : AnswerValues,
               category : {2, 3}, difficulty : DifficultyValues],
        D \in SUBSET CreateKeys}

QuizKeys == {"quiz_category", "previous_questions"}

QuizData ==
    {Restrict(f, D) :
        f \in [quiz_category : {[id |-> c] : c \in {0, 1, 3}},
               previous_questions : SUBSET (1..MaxPrev)],
        D \in SUBSET QuizKeys}

(***************************************************************************)
(* One request: the decorated endpoint runs to its response.  A request    *)
(* that changes the tables is taken only while writes < MaxWrites.         *)
(***************************************************************************)
Serve(request, r) ==
    LET h == handle_exceptions(r)
    IN  /\ (h.store # questions => writes < MaxWrites)
        /\ req' = request
        /\ resp' = Response(h)
        /\ outcome' = [kind |-> r.kind, status |-> r.status]
        /\ session' = h.ops
        /\ questions' = h.store
        /\ nextId' = h.nextId
        /\ writes' = IF h.store # questions THEN writes + 1 ELSE writes
        /\ UNCHANGED categories

GetCategories ==
    Serve([op |-> "categories"], get_categories(questions, categories, nextId))

GetPaginatedQuestions ==
    \E args \in {<<>>} \cup {[page |-> p] : p \in Pages} :
        Serve([op |-> "list", args |-> args],
              get_paginated_questions(args, questions, categories, nextId))

DeleteQuestion ==
    \E id \in QuestionIds :
        Serve([op |-> "delete", id |-> id], delete_question(id, questions, nextId))

CreateQuestion ==
    \E form \in CreateForms :
        Serve([op |-> "create", form |-> form],
              create_question(form, questions, categories, nextId))

SearchQuestion ==
    \E args \in {<<>>} \cup {[search_term |-> t] : t \in Terms} :
        Serve([op |-> "search", args |-> args],
              search_question(args, questions, nextId))

GetQuestionsByCategory ==
    \E id \in CategoryIds :
        Serve([op |-> "category", id |-> id],
              get_questions_by_category(id, questions, categories, nextId))

PlayQuiz ==
    \E data \in QuizData :
        \E r \in play_quiz(data, questions, nextId) :
            Serve([op |-> "quiz", data |-> data], r)

Init ==
    /\ \E n \in {0, NumSeed} :
          /\ questions = SeedStore(n)
          /\ nextId = n + 1
    /\ categories = SeedCategories
    /\ req = [op |-> "none"]
    /\ resp = [status |-> 0, body |-> Null]
    /\ outcome = [kind |-> "none", status |-> 0]
    /\ session = <<>>
    /\ writes = 0

Next ==
    \/ GetCategories
    \/ GetPaginatedQuestions
    \/ DeleteQuestion
    \/ CreateQuestion
    \/ SearchQuestion
    \/ GetQuestionsByCategory
    \/ PlayQuiz

Spec == Init /\ [][Next]_vars

(***************************************************************************)
(* Properties.                                                             *)
(***************************************************************************)
IdsOf(qs) == {q.id : q \in qs}

CategoryIdsOf(cats) == {c.id : c \in cats}

\* the last page that holds questions: ceil(n / 10)
LastPage(qs) ==
    (Cardinality(qs) + QUESTIONS_PER_PAGE - 1) \div QUESTIONS_PER_PAGE

RequestedPage(request) ==
    IF "page" \in DOMAIN request.args THEN request.args["page"] ELSE 1

RequestedTerm(request) ==
    IF "search_term" \in DOMAIN request.args THEN request.args["search_term"] ELSE <<>>

\* term occurs in the text of the column, letter case ignored
Contains(col, term) ==
    /\ col.t = "str"
    /\ \E i \in 1..(Len(col.v) - Len(term) + 1) :
          \A j \in 1..Len(term) : lower(col.v[i + j - 1]) = lower(term[j])

\* term occurs in the text of the column as it is written
Substring(col, term) ==
    /\ col.t = "str"
    /\ \E i \in 1..(Len(col.v) - Len(term) + 1) :
          \A j \in 1..Len(term) : col.v[i + j - 1] = term[j]

\* the ids of the questions a response carries
ReturnedIds(request, response) ==
    IF response.status # 200 THEN {}
    ELSE IF request.op = "list"
         THEN {response.body.questions[i].id : i \in 1..Len(response.body.questions)}
    ELSE IF request.op \in {"search", "category"}
         THEN {q.id : q \in response.body.questions}
    ELSE IF request.op = "quiz" /\ response.body.question # Null
         THEN {response.body.question.id}
    ELSE {}

\* C1: a page past the last page that holds questions gets HTTP 200 with
\* success true and an empty list of questions, never an error response.
C1_PagePastTheEndIsEmpty200 ==
    (req.op = "list" /\ RequestedPage(req) > LastPage(questions)) =>
        /\ resp.status = 200
        /\ resp.body.success
        /\ resp.body.questions = <<>>

\* C2: a quiz request with its two keys gets success true and a question that
\* is null or a stored question outside previous_questions and, when the
\* category id is positive, of that category; it is null exactly when no stored
\* question qualifies.
C2_QuizQuestionIsUnseenAndOfTheCategory ==
    (req.op = "quiz" /\ DOMAIN req.data = QuizKeys) =>
        LET c == req.data["quiz_category"]["id"]
            previous == req.data["previous_questions"]
            eligible == {q \in questions :
                            q.id \notin previous /\ (c > 0 => q.category = c)}
        IN  /\ resp.status = 200
            /\ resp.body.success
            /\ (resp.body.question = Null) <=> (eligible = {})
            /\ resp.body.question # Null => resp.body.question \in eligible

C2_Witness ==
    /\ req.op = "quiz" /\ DOMAIN req.data = QuizKeys
    /\ req.data["quiz_category"]["id"] > 0
    /\ req.data["previous_questions"] \cap IdsOf(questions) # {}
    /\ resp.body.question # Null

\* a create body is invalid: question or answer is "" or null, or category is
\* not the id of a category
InvalidForm(form, cats) ==
    \/ "question" \in DOMAIN form /\ form["question"] \in {Str(<<>>), Null}
    \/ "answer" \in DOMAIN form /\ form["answer"] \in {Str(<<>>), Null}
    \/ "category" \in DOMAIN form /\ form["category"] \notin CategoryIdsOf(cats)

\* C3 as claimed: every create whose question or answer is "" or null, or whose
\* category is no category's id, gets 422 "Unprocessable" and leaves the
\* questions as they were.
C3_InvalidCreateIs422 ==
    [][(req'.op = "create" /\ InvalidForm(req'.form, categories)) =>
          /\ resp' = [status |-> 422, body |-> unprocessable]
          /\ questions' = questions]_vars

\* C3 amended: a create whose body has the question and the answer key, and
\* whose question or answer is "" or null or whose category is no category's
\* id, gets 422 "Unprocessable" and leaves the questions as they were.
C3_InvalidCreateWithKeysIs422 ==
    [][(/\ req'.op = "create"
        /\ {"question", "answer"} \subseteq DOMAIN req'.form
        /\ InvalidForm(req'.form, categories)) =>
          /\ resp' = [status |-> 422, body |-> unprocessable]
          /\ questions' = questions]_vars

C3_Witness ==
    /\ req.op = "create"
    /\ DOMAIN req.form = CreateKeys
    /\ req.form["question"] \notin {Str(<<>>), Null}
    /\ req.form["answer"] \notin {Str(<<>>), Null}
    /\ req.form["category"] \notin CategoryIdsOf(categories)
    /\ resp.status = 422

\* C4: DELETE of a stored id gets 200 with the id and removes that question and
\* no other; DELETE of an id that is not stored gets 404 "Resource Not Found"
\* and changes nothing; and an id that is not stored stays so, and is returned
\* by no listing, search, category filter or quiz, over every request that is
\* not a create.
C4_DeleteRemovesExactlyThatQuestion ==
    [][/\ req'.op = "delete" =>
            IF req'.id \in IdsOf(questions)
            THEN /\ resp' = [status |-> 200,
                             body |-> [success |-> TRUE, id |-> req'.id]]
                 /\ questions' = {q \in questions : q.id # req'.id}
            ELSE /\ resp' = [status |-> 404, body |-> not_found]
                 /\ questions' = questions
       /\ req'.op # "create" =>
            /\ IdsOf(questions') \subseteq IdsOf(questions)
            /\ ReturnedIds(req', resp') \subseteq IdsOf(questions)]_vars

\* a second DELETE of an id that was stored: ids below nextId were assigned
C4_Witness ==
    /\ req.op = "delete"
    /\ req.id >= 1 /\ req.id < nextId
    /\ req.id \notin IdsOf(questions)
    /\ resp.status = 404

\* C5: a search gets 200 with exactly the stored questions whose text contains
\* the term as a literal substring, letter case ignored, and their number as
\* total_questions.
C5_SearchReturnsLiteralMatches ==
    req.op = "search" =>
        LET found == {q \in questions : Contains(q.question, RequestedTerm(req))}
        IN  /\ resp.status = 200
            /\ resp.body.questions = found
            /\ resp.body.total_questions = Cardinality(found)

\* C6: the questions of a category: 404 when the id is no category's, else 200
\* with exactly the stored questions of that category, their number, and the
\* category's type.
C6_CategoryFilterIsExact ==
    req.op = "category" =>
        IF req.id \notin CategoryIdsOf(categories)
        THEN resp.status = 404
        ELSE /\ resp.status = 200
             /\ \A q \in resp.body.questions : q \in questions /\ q.category = req.id
             /\ \A q \in questions : q.category = req.id => q \in resp.body.questions
             /\ resp.body.total_questions = Cardinality(resp.body.questions)
             /\ \E c \in categories :
                   c.id = req.id /\ resp.body.current_category = c.type

C6_Witness ==
    /\ req.op = "category"
    /\ resp.status = 200
    /\ resp.body.questions # {}
    /\ \E q \in questions : q.category # req.id

\* a stored question is on some page of the listing and in the result of its
\* category's filter
Listed(q, qs, cats) ==
    /\ \E p \in 1..LastPage(qs) :
          LET r == get_paginated_questions([page |-> p], qs, cats, 0)
          IN  /\ r.kind = "return"
              /\ \E i \in 1..Len(r.body.questions) : r.body.questions[i] = q
    /\ LET r == get_questions_by_category(q.category, qs, cats, 0)
       IN  r.kind = "return" /\ q \in r.body.questions

\* C7: a create that succeeds stores a question with the four values of its
\* body; a stored question stays stored until a DELETE of its id; every stored
\* question is on a page of the listing and in its category's result; and a
\* search returns every stored question whose text has the term as a substring.
C7_CreatedQuestionIsRetrievable ==
    /\ [](/\ \A q \in questions : Listed(q, questions, categories)
          /\ req.op = "search" =>
                \A q \in questions :
                    Substring(q.question, RequestedTerm(req)) =>
                        /\ resp.status = 200
                        /\ q \in resp.body.questions)
    /\ [][/\ (req'.op = "create" /\ resp'.status = 200) =>
               \E q \in questions' \ questions :
                   /\ q.question = req'.form["question"]
                   /\ q.answer = req'.form["answer"]
                   /\ q.category = req'.form["category"]
                   /\ q.difficulty = req'.form["difficulty"]
          /\ \A q \in questions :
               ~(req'.op = "delete" /\ req'.id = q.id) => q \in questions']_vars

\* C8: a page p with 1 <= p <= ceil(n/10) gets the questions at positions
\* 10(p-1)+1 .. min(10p, n) of the store in ascending id, their number as
\* total_questions, and the mapping of every category id to its type; no page
\* parameter is page 1.
C8_PageHoldsItsSlice ==
    (req.op = "list" /\ 1 <= RequestedPage(req)
                     /\ RequestedPage(req) <= LastPage(questions)) =>
        LET p == RequestedPage(req)
            n == Cardinality(questions)
            first == QUESTIONS_PER_PAGE * (p - 1)
        IN  /\ resp.status = 200
            /\ resp.body.success
            /\ Len(resp.body.questions) = Min(QUESTIONS_PER_PAGE, n - first)
            /\ \A i \in 1..Len(resp.body.questions) :
                  LET q == resp.body.questions[i]
                  IN  /\ q \in questions
                      /\ Cardinality({x \in questions : x.id < q.id}) = first + i - 1
            /\ resp.body.total_questions = Len(resp.body.questions)
            /\ DOMAIN resp.body.categories = CategoryIdsOf(categories)
            /\ \A c \in categories : resp.body.categories[c.id] = c.type

C8_Witness ==
    /\ req.op = "list"
    /\ RequestedPage(req) = 2
    /\ resp.status = 200
    /\ Len(resp.body.questions) \in 1..(QUESTIONS_PER_PAGE - 1)

\* C9: the categories are the seeded ones, and every stored question has the
\* id of a category as its category and a question and an answer that are
\* neither null nor the empty string.
C9_StoreStaysValid ==
    /\ categories = SeedCategories
    /\ \A q \in questions :
          /\ q.category \in CategoryIdsOf(categories)
          /\ q.question \notin {Null, Str(<<>>)}
          /\ q.answer \notin {Null, Str(<<>>)}

C9_Witness ==
    /\ req.op = "delete"
    /\ resp.status = 200
    /\ \E q \in questions : q.id > NumSeed \/ q.question = Str(<<"a", "\\">>)

\* C10: when the endpoint function raises an exception that is no HTTP
\* exception (a create or quiz body that lacks a key it reads, for one) the
\* response is 500 "Internal Server Error" and the questions are unchanged; an
\* abort(404) or abort(422) keeps its status; and every request ends with
\* db.session.rollback() and db.session.close().
C10_ExceptionsBecome500AndSessionIsReleased ==
    [][req'.op # "none" =>
          /\ outcome'.kind = "raise" =>
                /\ resp' = [status |-> 500, body |-> internal_server_error]
                /\ questions' = questions
          /\ outcome'.kind = "abort" =>
                /\ outcome'.status \in {404, 422}
                /\ resp'.status = outcome'.status
                /\ resp'.body.error = outcome'.status
          /\ (req'.op = "create" /\ "question" \notin DOMAIN req'.form) =>
                outcome'.kind = "raise"
          /\ (req'.op = "quiz" /\ DOMAIN req'.data # QuizKeys) =>
                outcome'.kind = "raise"
          /\ Len(session') >= 2
          /\ SubSeq(session', Len(session') - 1, Len(session')) = <<"rollback", "close">>]_vars

C10_Witness ==
    /\ req.op = "create"
    /\ "difficulty" \notin DOMAIN req.form
    /\ outcome.kind = "raise"
    /\ resp.status = 500
    /\ session = <<"rollback", "close">>

====
